---- MODULE Spec2Model ----
(***************************************************************************)
(* In-memory transports of mcp_python (mcp_python/shared/memory.py):       *)
(*   create_client_server_memory_streams          the paired channel factory*)
(*   create_connected_server_and_client_session   the session connector     *)
(*                                                                         *)
(* A memory object stream is one shared state record (buffer, open channel *)
(* counts, waiting senders, waiting receivers) referenced by a send        *)
(* endpoint and a receive endpoint; each endpoint has its own closed flag. *)
(* Every action below is one run of a task between two suspension points   *)
(* of the single-threaded cooperative scheduler.                           *)
(***************************************************************************)
EXTENDS Integers, Sequences, FiniteSets, TLC

VARIABLES
    st,         \* stream state id -> the shared state of one memory object stream
    closed,     \* endpoint -> its _closed flag
    released,   \* endpoint -> how often its open channel count was given back
    tpc,        \* task -> "idle" | "send_wait" | "recv_wait" | "raise" | "done"
    slot,       \* task -> the item its last receive returned, or the error it raises
    sent,       \* send endpoint -> the items whose send() completed, in order
    rcvd,       \* receive endpoint -> the items receive() handed out, in order
    users,      \* endpoint -> the <<task, operation>> pairs that have operated on it
    fpc,        \* invocation -> factory scope: "open" | "exiting" | "exited"
    nexit,      \* invocation -> how many of the async with's items are still to be exited
    how,        \* invocation -> how the body of the factory scope ended
    probe,      \* invocation -> the last send/receive attempted after the scope exit
    hpc,        \* invocation -> where the connector (and its caller) stands
    spc,        \* invocation -> where the background server task stands
    sess,       \* invocation -> the client session: "none" | "entered" | "initialized" | "exited"
    handler,    \* invocation -> what the server handler does with a request
    read_timeout_seconds,   \* invocation -> "None" | "finite"
    raise_exceptions,       \* invocation -> the flag passed on to server.run
    cancel_called,  \* invocation -> tg.cancel_scope has been cancelled
    exc,        \* invocation -> the exception travelling through the connector, or "none"
    srv,        \* invocation -> how the server task ended: "none" | "cancelled" | "returned" | "failed"
    yielded,    \* invocation -> the session has been yielded to the caller
    nreq,       \* invocation -> requests the caller has made through the session
    errors      \* invocation -> the errors the connector's scope ended with

svars == <<st, closed, released, tpc, slot, sent, rcvd, users>>

fvars == <<fpc, nexit, how, probe>>

cvars == <<hpc, spc, sess, handler, read_timeout_seconds, raise_exceptions,
           cancel_called, exc, srv, yielded, nreq, errors>>

vars == <<svars, fvars, cvars>>

-----------------------------------------------------------------------------
(* Bounds and program constants *)

\* capacity given to anyio.create_memory_object_stream
\* (faulty variant: a capacity of two)
max_buffer_size_two == 1 + 1

max_buffer_size == 1

\* items each task of a factory scope's body may send
MaxMsgs == 2

\* requests the caller makes through the yielded session
MaxRequests == 1

Dirs == {"c2s", "s2c"}
Ends == {"s2c_send", "s2c_recv", "c2s_send", "c2s_recv"}
SendEnds == {"s2c_send", "c2s_send"}
RecvEnds == {"s2c_recv", "c2s_recv"}
Tasks == {"client", "server"}

Insts == DOMAIN fpc

-----------------------------------------------------------------------------
(* The factory's wiring *)

\* The stream state an endpoint of invocation i refers to: each call of
\* create_memory_object_stream returns a (send, receive) pair over one fresh state.
\* (faulty variant: the stream states live at module level, shared by all invocations)
StateOf_shared(i, e) ==
    IF e \in {"s2c_send", "s2c_recv"} THEN <<1, "s2c">> ELSE <<1, "c2s">>

\* (faulty variant: both directions unpack the same stream)
StateOf_one(i, e) == <<i, "c2s">>

StateOf(i, e) ==
    IF e \in {"s2c_send", "s2c_recv"} THEN <<i, "s2c">> ELSE <<i, "c2s">>

\* (read_stream, write_stream) of each side
\* (faulty variant: the client reads the stream it writes)
client_streams_loop == <<"c2s_recv", "c2s_send">>

client_streams == <<"s2c_recv", "c2s_send">>

\* (faulty variant: the server is handed the receive endpoint of the stream it
\* writes, the one the client reads)
server_streams_same == <<"s2c_recv", "s2c_send">>

server_streams == <<"c2s_recv", "s2c_send">>

\* client_read, client_write = client_streams; server_read, server_write = server_streams
\* (faulty variant: server.run is handed client_read)
ReadEnd_client(t) == client_streams[1]

ReadEnd(t) == IF t = "client" THEN client_streams[1] ELSE server_streams[1]

WriteEnd(t) == IF t = "client" THEN client_streams[2] ELSE server_streams[2]

\* the endpoints entered by the factory's async with, in order; exited in reverse
\* (faulty variant: client_to_server_receive listed twice, server_to_client_send missing)
AsyncWithItems_short == <<"s2c_recv", "c2s_send", "c2s_recv", "c2s_recv">>

AsyncWithItems == <<"s2c_recv", "c2s_send", "c2s_recv", "s2c_send">>

EmptyState ==
    [buffer |-> <<>>, open_send_channels |-> 1, open_receive_channels |-> 1,
     waiting_receivers |-> <<>>, waiting_senders |-> <<>>]

-----------------------------------------------------------------------------
(* anyio memory object streams *)

\* what a task holds before it has received anything, and an error it raises
NoItem == [from |-> <<0, "none">>, n |-> 0, kind |-> "none"]

Error(name) == [from |-> <<0, "none">>, n |-> 0, kind |-> name]

\* a task whose cancel scope has been cancelled and which has not unwound yet
HasPendingCancellation(w) == w[1] \in DOMAIN cancel_called /\ cancel_called[w[1]]

RECURSIVE SkipCancelled(_)
SkipCancelled(ws) ==
    IF ws = <<>> THEN <<>>
    ELSE IF HasPendingCancellation(Head(ws).task) THEN SkipCancelled(Tail(ws))
    ELSE ws

\* MemoryObjectSendStream.send_nowait
send_nowait(s, isClosed, item) ==
    IF isClosed THEN [res |-> "ClosedResourceError", s |-> s, wake |-> <<>>]
    ELSE IF s.open_receive_channels = 0
        THEN [res |-> "BrokenResourceError", s |-> s, wake |-> <<>>]
    ELSE LET live == SkipCancelled(s.waiting_receivers) IN
        IF live # <<>>
        THEN [res |-> "ok", s |-> [s EXCEPT !.waiting_receivers = Tail(live)],
              wake |-> <<Head(live)>>]
        ELSE IF Len(s.buffer) < max_buffer_size
        THEN [res |-> "ok",
              s |-> [s EXCEPT !.waiting_receivers = <<>>, !.buffer = Append(@, item)],
              wake |-> <<>>]
        ELSE [res |-> "WouldBlock", s |-> [s EXCEPT !.waiting_receivers = <<>>],
              wake |-> <<>>]

\* MemoryObjectReceiveStream.receive_nowait
receive_nowait(s, isClosed) ==
    IF isClosed THEN [res |-> "ClosedResourceError", s |-> s, item |-> NoItem, wake |-> <<>>]
    ELSE LET moved == s.waiting_senders # <<>>
             buf == IF moved THEN Append(s.buffer, Head(s.waiting_senders).item)
                    ELSE s.buffer
             s1 == [s EXCEPT !.waiting_senders = IF moved THEN Tail(@) ELSE @]
             wk == IF moved THEN <<Head(s.waiting_senders)>> ELSE <<>>
         IN IF buf # <<>>
            THEN [res |-> "item", item |-> Head(buf),
                  s |-> [s1 EXCEPT !.buffer = Tail(buf)], wake |-> wk]
            ELSE IF s.open_send_channels = 0
            THEN [res |-> "EndOfStream", s |-> s1, item |-> NoItem, wake |-> wk]
            ELSE [res |-> "WouldBlock", s |-> s1, item |-> NoItem, wake |-> wk]

\* the tasks named by a sequence of waiting entries
RECURSIVE TasksOf(_)
TasksOf(ws) == IF ws = <<>> THEN {} ELSE {Head(ws).task} \cup TasksOf(Tail(ws))

RECURSIVE Without(_, _)
Without(ws, w) ==
    IF ws = <<>> THEN <<>>
    ELSE IF Head(ws).task = w THEN Without(Tail(ws), w)
    ELSE <<Head(ws)>> \o Without(Tail(ws), w)

\* MemoryObjectSendStream.close / MemoryObjectReceiveStream.close on the shared
\* state: the last send endpoint wakes the waiting receivers (EndOfStream), the
\* last receive endpoint wakes the waiting senders (BrokenResourceError).
close_state(s, e) ==
    IF e \in SendEnds
    THEN [s EXCEPT !.open_send_channels = @ - 1,
                   !.waiting_receivers = IF s.open_send_channels = 1 THEN <<>> ELSE @]
    ELSE [s EXCEPT !.open_receive_channels = @ - 1,
                   !.waiting_senders = IF s.open_receive_channels = 1 THEN <<>> ELSE @]

WokenByClose(s, e) ==
    IF e \in SendEnds
    THEN IF s.open_send_channels = 1 THEN TasksOf(s.waiting_receivers) ELSE {}
    ELSE IF s.open_receive_channels = 1 THEN TasksOf(s.waiting_senders) ELSE {}

ErrorOfClose(e) == IF e \in SendEnds THEN "EndOfStream" ELSE "BrokenResourceError"

-----------------------------------------------------------------------------
(* Stream operations as transformers of the program state *)

World ==
    [st |-> st, closed |-> closed, released |-> released, tpc |-> tpc,
     slot |-> slot, sent |-> sent, rcvd |-> rcvd, users |-> users]

Commit(w) ==
    /\ st' = w.st
    /\ closed' = w.closed
    /\ released' = w.released
    /\ tpc' = w.tpc
    /\ slot' = w.slot
    /\ sent' = w.sent
    /\ rcvd' = w.rcvd
    /\ users' = w.users

\* task t of invocation i calls operation op of its reference to endpoint e
Use(w, i, t, e, op) == [w EXCEPT !.users[<<i, e>>] = @ \cup {<<t, op>>}]

\* await e.send(item) by task <<i, t>>, up to its return or its suspension
DoSend(w, i, t, e, item) ==
    LET sid == StateOf(i, e)
        me == <<i, t>>
        w0 == Use(w, i, t, e, "send")
        r == send_nowait(w.st[sid], w.closed[<<i, e>>], item)
    IN  IF r.res = "ok"
        THEN LET w1 == [w0 EXCEPT !.st[sid] = r.s,
                                 !.sent[<<i, e>>] = Append(@, item),
                                 !.tpc[me] = "idle"]
             IN  IF r.wake = <<>> THEN w1
                 ELSE [w1 EXCEPT !.tpc[r.wake[1].task] = "idle",
                                 !.slot[r.wake[1].task] = item,
                                 !.rcvd[r.wake[1].end] = Append(@, item)]
        ELSE IF r.res = "WouldBlock"
        THEN [w0 EXCEPT !.st[sid] = [r.s EXCEPT !.waiting_senders =
                           Append(@, [task |-> me, end |-> <<i, e>>, item |-> item])],
                       !.tpc[me] = "send_wait"]
        ELSE [w0 EXCEPT !.st[sid] = r.s, !.tpc[me] = "raise", !.slot[me] = Error(r.res)]

\* await e.receive() by task <<i, t>>, up to its return or its suspension
DoReceive(w, i, t, e) ==
    LET sid == StateOf(i, e)
        me == <<i, t>>
        w0 == Use(w, i, t, e, "receive")
        r == receive_nowait(w.st[sid], w.closed[<<i, e>>])
    IN  IF r.res = "item"
        THEN LET w1 == [w0 EXCEPT !.st[sid] = r.s,
                                 !.rcvd[<<i, e>>] = Append(@, r.item),
                                 !.slot[me] = r.item,
                                 !.tpc[me] = "idle"]
             IN  IF r.wake = <<>> THEN w1
                 ELSE [w1 EXCEPT !.tpc[r.wake[1].task] = "idle",
                                 !.sent[r.wake[1].end] = Append(@, r.wake[1].item)]
        ELSE IF r.res = "WouldBlock"
        THEN [w0 EXCEPT !.st[sid] = [r.s EXCEPT !.waiting_receivers =
                           Append(@, [task |-> me, end |-> <<i, e>>])],
                       !.tpc[me] = "recv_wait"]
        ELSE [w0 EXCEPT !.tpc[me] = "raise", !.slot[me] = Error(r.res)]

\* e.close() / await e.aclose() by task <<i, t>>: nothing happens on a closed endpoint
DoClose(w, i, t, e) ==
    LET sid == StateOf(i, e)
        woken == WokenByClose(w.st[sid], e)
        w0 == Use(w, i, t, e, "close")
    IN  IF w.closed[<<i, e>>] THEN w0
        ELSE [w0 EXCEPT !.closed[<<i, e>>] = TRUE,
                       !.released[<<i, e>>] = @ + 1,
                       !.st[sid] = close_state(@, e),
                       !.tpc = [x \in DOMAIN @ |-> IF x \in woken THEN "raise" ELSE @[x]],
                       !.slot = [x \in DOMAIN @ |->
                                    IF x \in woken THEN Error(ErrorOfClose(e)) ELSE @[x]]]

\* a task leaves its send() or receive() with an exception (cancellation, timeout):
\* it takes itself out of the waiting senders and receivers
DoUnwind(w, me) ==
    [w EXCEPT !.st = [sid \in DOMAIN @ |->
                        [@[sid] EXCEPT !.waiting_receivers = Without(@, me),
                                       !.waiting_senders = Without(@, me)]]]

-----------------------------------------------------------------------------
(* create_client_server_memory_streams with a body of two tasks, one using *)
(* client_streams and one using server_streams                             *)

Item(i, e, k) == [from |-> <<i, e>>, n |-> Len(sent[<<i, e>>]) + 1, kind |-> k]

InitFactory(I) ==
    /\ st = [sid \in I \X Dirs |-> EmptyState]
    /\ closed = [x \in I \X Ends |-> FALSE]
    /\ released = [x \in I \X Ends |-> 0]
    /\ tpc = [x \in I \X Tasks |-> "idle"]
    /\ slot = [x \in I \X Tasks |-> NoItem]
    /\ sent = [x \in I \X SendEnds |-> <<>>]
    /\ rcvd = [x \in I \X RecvEnds |-> <<>>]
    /\ users = [x \in I \X Ends |-> {}]
    /\ fpc = [i \in I |-> "open"]
    /\ nexit = [i \in I |-> Len(AsyncWithItems)]
    /\ how = [i \in I |-> "none"]
    /\ probe = [i \in I |-> [end |-> "none", op |-> "none", res |-> "none"]]
    /\ hpc = [i \in I |-> "none"]
    /\ spc = [i \in I |-> "none"]
    /\ sess = [i \in I |-> "none"]
    /\ handler = [i \in I |-> "none"]
    /\ read_timeout_seconds = [i \in I |-> "None"]
    /\ raise_exceptions = [i \in I |-> FALSE]
    /\ cancel_called = [i \in I |-> FALSE]
    /\ exc = [i \in I |-> "none"]
    /\ srv = [i \in I |-> "none"]
    /\ yielded = [i \in I |-> FALSE]
    /\ nreq = [i \in I |-> 0]
    /\ errors = [i \in I |-> {}]

UserSend(i, t) ==
    /\ fpc[i] = "open"
    /\ tpc[<<i, t>>] = "idle"
    /\ Len(sent[<<i, WriteEnd(t)>>]) < MaxMsgs
    /\ Commit(DoSend(World, i, t, WriteEnd(t), Item(i, WriteEnd(t), "msg")))
    /\ UNCHANGED <<fvars, cvars>>

UserReceive(i, t) ==
    /\ fpc[i] = "open"
    /\ tpc[<<i, t>>] = "idle"
    /\ Commit(DoReceive(World, i, t, ReadEnd(t)))
    /\ UNCHANGED <<fvars, cvars>>

\* a task of the body closes one of its own endpoints
UserClose(i, t) ==
    /\ fpc[i] = "open"
    /\ tpc[<<i, t>>] = "idle"
    /\ \E e \in {ReadEnd(t), WriteEnd(t)} : Commit(DoClose(World, i, t, e))
    /\ UNCHANGED <<fvars, cvars>>

\* a task of the body handles the error its send or receive raised
UserCatch(i, t) ==
    /\ fpc[i] = "open"
    /\ tpc[<<i, t>>] = "raise"
    /\ tpc' = [tpc EXCEPT ![<<i, t>>] = "idle"]
    /\ UNCHANGED <<st, closed, released, slot, sent, rcvd, users, fvars, cvars>>

\* the body of the async with ends: normally, by an error or by cancellation.
\* Tasks still suspended in send or receive unwind first.
ExitBody(i, h) ==
    /\ fpc[i] = "open"
    /\ h = "normal" => \A t \in Tasks : tpc[<<i, t>>] = "idle"
    /\ h = "error" => \E t \in Tasks : tpc[<<i, t>>] = "raise"
    /\ LET w1 == DoUnwind(DoUnwind(World, <<i, "client">>), <<i, "server">>)
       IN  Commit([w1 EXCEPT !.tpc = [x \in DOMAIN @ |->
                                         IF x[1] = i THEN "done" ELSE @[x]]])
    /\ fpc' = [fpc EXCEPT ![i] = "exiting"]
    /\ how' = [how EXCEPT ![i] = h]
    /\ UNCHANGED <<nexit, probe, cvars>>

\* __aexit__ of the async with: the items are exited one by one, last first, by
\* the task that entered the scope; in the connector that is the host task, which
\* also runs the client session ("client")
FactoryExit(i) ==
    /\ fpc[i] = "exiting"
    /\ nexit[i] > 0
    /\ Commit(DoClose(World, i, "client", AsyncWithItems[nexit[i]]))
    /\ nexit' = [nexit EXCEPT ![i] = @ - 1]
    /\ fpc' = [fpc EXCEPT ![i] = IF nexit[i] = 1 THEN "exited" ELSE "exiting"]
    /\ UNCHANGED <<how, probe, cvars>>

\* a send or a receive attempted on an endpoint after the scope has exited
ProbeSend(i, e) ==
    /\ fpc[i] = "exited"
    /\ probe' = [probe EXCEPT ![i] =
                   [end |-> e, op |-> "send",
                    res |-> send_nowait(st[StateOf(i, e)], closed[<<i, e>>], NoItem).res]]
    /\ UNCHANGED <<svars, fpc, nexit, how, cvars>>

ProbeReceive(i, e) ==
    /\ fpc[i] = "exited"
    /\ probe' = [probe EXCEPT ![i] =
                   [end |-> e, op |-> "receive",
                    res |-> receive_nowait(st[StateOf(i, e)], closed[<<i, e>>]).res]]
    /\ UNCHANGED <<svars, fpc, nexit, how, cvars>>

NextStreams ==
    \/ \E i \in Insts, t \in Tasks : UserSend(i, t)
    \/ \E i \in Insts, t \in Tasks : UserReceive(i, t)
    \/ \E i \in Insts, t \in Tasks : UserClose(i, t)
    \/ \E i \in Insts, t \in Tasks : UserCatch(i, t)
    \/ \E i \in Insts, h \in {"normal", "error", "cancelled"} : ExitBody(i, h)
    \/ \E i \in Insts : FactoryExit(i)
    \/ \E i \in Insts, e \in SendEnds : ProbeSend(i, e)
    \/ \E i \in Insts, e \in RecvEnds : ProbeReceive(i, e)

SpecStreams == InitFactory({1}) /\ [][NextStreams]_vars

-----------------------------------------------------------------------------
(* create_connected_server_and_client_session: the host task (the connector *)
(* and its caller) and the background server task                           *)

HandlerKinds ==
    {"ok", "stall", "stall_later", "malformed", "exc_value", "proc_error", "proc_error_later"}

\* the flag server.run is started with: raise_exceptions=raise_exceptions
\* (faulty variant: the flag is not passed on and server.run keeps its default)
RaiseFlag_dropped(i) == FALSE

RaiseFlag(i) == raise_exceptions[i]

\* the handler leaves the request it has just received unanswered: "stall" every
\* request, "stall_later" every request after the initialize request
Stalls(i) ==
    \/ handler[i] = "stall"
    \/ handler[i] = "stall_later" /\ Len(rcvd[<<i, ReadEnd("server")>>]) > 1

\* the handler raises a processing error on the request it has just received:
\* "proc_error" on every request, "proc_error_later" on every request after the
\* initialize request
Fails(i) ==
    \/ handler[i] = "proc_error"
    \/ handler[i] = "proc_error_later" /\ Len(rcvd[<<i, ReadEnd("server")>>]) > 1

\* what a handler that answers puts on server_write for a request
ResponseKind(h) ==
    CASE h \in {"ok", "stall_later", "proc_error_later"} -> "response"
      [] h = "malformed" -> "malformed"
      [] h = "exc_value" -> "exc_value"
      [] OTHER -> "error_response"

RequestPhases == {"initialize", "init_sent", "init_recv", "call", "call_sent", "call_recv"}

\* the caller holds the yielded session
InUsePhases == {"in_use", "call", "call_sent", "call_recv"}

InitConnector(I) ==
    /\ st = [sid \in I \X Dirs |-> EmptyState]
    /\ closed = [x \in I \X Ends |-> FALSE]
    /\ released = [x \in I \X Ends |-> 0]
    /\ tpc = [x \in I \X Tasks |-> "idle"]
    /\ slot = [x \in I \X Tasks |-> NoItem]
    /\ sent = [x \in I \X SendEnds |-> <<>>]
    /\ rcvd = [x \in I \X RecvEnds |-> <<>>]
    /\ users = [x \in I \X Ends |-> {}]
    /\ fpc = [i \in I |-> "new"]
    /\ nexit = [i \in I |-> Len(AsyncWithItems)]
    /\ how = [i \in I |-> "none"]
    /\ probe = [i \in I |-> [end |-> "none", op |-> "none", res |-> "none"]]
    /\ hpc = [i \in I |-> "enter"]
    /\ spc = [i \in I |-> "none"]
    /\ sess = [i \in I |-> "none"]
    /\ handler \in [I -> HandlerKinds]
    /\ read_timeout_seconds \in [I -> {"None", "finite"}]
    /\ raise_exceptions \in [I -> BOOLEAN]
    /\ cancel_called = [i \in I |-> FALSE]
    /\ exc = [i \in I |-> "none"]
    /\ srv = [i \in I |-> "none"]
    /\ yielded = [i \in I |-> FALSE]
    /\ nreq = [i \in I |-> 0]
    /\ errors = [i \in I |-> {}]

\* async with create_client_server_memory_streams() as (client_streams, server_streams)
\* (faulty variant: the factory yields after its async with block instead of
\* inside it, so the endpoints are handed out closed)
EnterFactory_closed(i) ==
    /\ hpc[i] = "enter"
    /\ hpc' = [hpc EXCEPT ![i] = "start_soon"]
    /\ fpc' = [fpc EXCEPT ![i] = "open"]
    /\ Commit(DoClose(DoClose(DoClose(DoClose(World, i, "client", AsyncWithItems[4]),
                                       i, "client", AsyncWithItems[3]),
                               i, "client", AsyncWithItems[2]),
                       i, "client", AsyncWithItems[1]))
    /\ UNCHANGED <<nexit, how, probe, spc, sess, handler, read_timeout_seconds,
                   raise_exceptions, cancel_called, exc, srv, yielded, nreq, errors>>

EnterFactory(i) ==
    /\ hpc[i] = "enter"
    /\ hpc' = [hpc EXCEPT ![i] = "start_soon"]
    /\ fpc' = [fpc EXCEPT ![i] = "open"]
    /\ UNCHANGED <<svars, nexit, how, probe, spc, sess, handler, read_timeout_seconds,
                   raise_exceptions, cancel_called, exc, srv, yielded, nreq, errors>>

\* async with anyio.create_task_group() as tg: tg.start_soon(server.run(...))
\* (faulty variant: the task group is entered but server.run is never scheduled)
StartSoon_skipped(i) ==
    /\ hpc[i] = "start_soon"
    /\ hpc' = [hpc EXCEPT ![i] = "session_enter"]
    /\ UNCHANGED <<svars, fvars, spc, sess, handler, read_timeout_seconds,
                   raise_exceptions, cancel_called, exc, srv, yielded, nreq, errors>>

StartSoon(i) ==
    /\ hpc[i] = "start_soon"
    /\ hpc' = [hpc EXCEPT ![i] = "session_enter"]
    /\ spc' = [spc EXCEPT ![i] = "started"]
    /\ UNCHANGED <<svars, fvars, sess, handler, read_timeout_seconds,
                   raise_exceptions, cancel_called, exc, srv, yielded, nreq, errors>>

\* async with ClientSession(read_stream=client_read, write_stream=client_write, ...)
SessionEnter(i) ==
    /\ hpc[i] = "session_enter"
    /\ hpc' = [hpc EXCEPT ![i] = "initialize"]
    /\ sess' = [sess EXCEPT ![i] = "entered"]
    /\ UNCHANGED <<svars, fvars, spc, handler, read_timeout_seconds,
                   raise_exceptions, cancel_called, exc, srv, yielded, nreq, errors>>

\* the session writes a request (the initialize request, or a caller's request)
ClientRequestSend(i) ==
    /\ hpc[i] \in {"initialize", "call"}
    /\ tpc[<<i, "client">>] = "idle"
    /\ ~cancel_called[i]
    /\ Commit(DoSend(World, i, "client", WriteEnd("client"),
                     Item(i, WriteEnd("client"), "request")))
    /\ hpc' = [hpc EXCEPT ![i] = IF @ = "initialize" THEN "init_sent" ELSE "call_sent"]
    /\ UNCHANGED <<fvars, spc, sess, handler, read_timeout_seconds,
                   raise_exceptions, cancel_called, exc, srv, yielded, nreq, errors>>

\* the session starts to wait for the response
ClientRequestReceive(i) ==
    /\ hpc[i] \in {"init_sent", "call_sent"}
    /\ tpc[<<i, "client">>] = "idle"
    /\ ~cancel_called[i]
    /\ Commit(DoReceive(World, i, "client", ReadEnd("client")))
    /\ hpc' = [hpc EXCEPT ![i] = IF @ = "init_sent" THEN "init_recv" ELSE "call_recv"]
    /\ UNCHANGED <<fvars, spc, sess, handler, read_timeout_seconds,
                   raise_exceptions, cancel_called, exc, srv, yielded, nreq, errors>>

\* the response arrived: the request returns (for the initialize request,
\* await client_session.initialize() returns), or it fails
ClientResponse(i) ==
    /\ hpc[i] \in {"init_recv", "call_recv"}
    /\ tpc[<<i, "client">>] = "idle"
    /\ IF slot[<<i, "client">>].kind = "response"
       THEN /\ hpc' = [hpc EXCEPT ![i] = IF @ = "init_recv" THEN "initialized" ELSE "in_use"]
            /\ sess' = [sess EXCEPT ![i] = "initialized"]
            /\ UNCHANGED exc
       ELSE /\ hpc' = [hpc EXCEPT ![i] = "session_exit"]
            /\ exc' = [exc EXCEPT ![i] = slot[<<i, "client">>].kind]
            /\ UNCHANGED sess
    /\ UNCHANGED <<svars, fvars, spc, handler, read_timeout_seconds,
                   raise_exceptions, cancel_called, srv, yielded, nreq, errors>>

\* yield client_session, reached when await client_session.initialize() returned
\* (faulty variant: the session is yielded without awaiting initialize)
Yield_first(i) ==
    /\ hpc[i] \in {"initialize", "initialized"}
    /\ hpc' = [hpc EXCEPT ![i] = "in_use"]
    /\ yielded' = [yielded EXCEPT ![i] = TRUE]
    /\ UNCHANGED <<svars, fvars, spc, sess, handler, read_timeout_seconds,
                   raise_exceptions, cancel_called, exc, srv, nreq, errors>>

\* (faulty variant: a failure of initialize is swallowed and the session yielded)
Yield_swallowing(i) ==
    /\ \/ hpc[i] = "initialized"
       \/ hpc[i] = "session_exit" /\ ~yielded[i]
    /\ hpc' = [hpc EXCEPT ![i] = "in_use"]
    /\ yielded' = [yielded EXCEPT ![i] = TRUE]
    /\ UNCHANGED <<svars, fvars, spc, sess, handler, read_timeout_seconds,
                   raise_exceptions, cancel_called, exc, srv, nreq, errors>>

\* (faulty variant: tg.cancel_scope.cancel() runs before the yield instead of in
\* the finally clause)
Yield_after_cancel(i) ==
    /\ hpc[i] = "initialized"
    /\ hpc' = [hpc EXCEPT ![i] = "in_use"]
    /\ yielded' = [yielded EXCEPT ![i] = TRUE]
    /\ cancel_called' = [cancel_called EXCEPT ![i] = TRUE]
    /\ UNCHANGED <<svars, fvars, spc, sess, handler, read_timeout_seconds,
                   raise_exceptions, exc, srv, nreq, errors>>

Yield(i) ==
    /\ hpc[i] = "initialized"
    /\ hpc' = [hpc EXCEPT ![i] = "in_use"]
    /\ yielded' = [yielded EXCEPT ![i] = TRUE]
    /\ UNCHANGED <<svars, fvars, spc, sess, handler, read_timeout_seconds,
                   raise_exceptions, cancel_called, exc, srv, nreq, errors>>

\* the timeout the session was given: read_timeout_seconds=read_timeout_seconds
\* (faulty variants: a default timeout replaces None; the timeout is not passed on)
ReadTimeoutSet_always(i) == TRUE

ReadTimeoutSet_dropped(i) == FALSE

ReadTimeoutSet(i) == read_timeout_seconds[i] # "None"

\* the read timeout elapses while the session waits for the response
ClientTimeout(i) ==
    /\ hpc[i] \in {"init_recv", "call_recv"}
    /\ tpc[<<i, "client">>] = "recv_wait"
    /\ ReadTimeoutSet(i)
    /\ Commit([DoUnwind(World, <<i, "client">>) EXCEPT !.tpc[<<i, "client">>] = "idle"])
    /\ hpc' = [hpc EXCEPT ![i] = "session_exit"]
    /\ exc' = [exc EXCEPT ![i] = "timeout"]
    /\ UNCHANGED <<fvars, spc, sess, handler, read_timeout_seconds,
                   raise_exceptions, cancel_called, srv, yielded, nreq, errors>>

\* the session's send or receive raised a stream error
ClientStreamError(i) ==
    /\ hpc[i] \in RequestPhases
    /\ tpc[<<i, "client">>] = "raise"
    /\ tpc' = [tpc EXCEPT ![<<i, "client">>] = "idle"]
    /\ hpc' = [hpc EXCEPT ![i] = "session_exit"]
    /\ exc' = [exc EXCEPT ![i] = slot[<<i, "client">>].kind]
    /\ UNCHANGED <<st, closed, released, slot, sent, rcvd, users, fvars, spc, sess, handler,
                   read_timeout_seconds, raise_exceptions, cancel_called, srv, yielded,
                   nreq, errors>>

\* the host task runs inside the task group's cancel scope: once the scope is
\* cancelled (a failed server task), its next checkpoint raises the cancellation
HostCancelled(i) ==
    /\ cancel_called[i]
    /\ \/ hpc[i] \in RequestPhases /\ tpc[<<i, "client">>] \in {"recv_wait", "send_wait"}
       \/ hpc[i] \in {"initialize", "call", "init_sent", "call_sent"}
            /\ tpc[<<i, "client">>] = "idle"
       \/ hpc[i] = "in_use"
    /\ Commit([DoUnwind(World, <<i, "client">>) EXCEPT !.tpc[<<i, "client">>] = "idle"])
    /\ hpc' = [hpc EXCEPT ![i] = "session_exit"]
    /\ exc' = [exc EXCEPT ![i] = "cancelled"]
    /\ UNCHANGED <<fvars, spc, sess, handler, read_timeout_seconds,
                   raise_exceptions, cancel_called, srv, yielded, nreq, errors>>

\* the caller makes a request through the yielded session
CallerRequest(i) ==
    /\ hpc[i] = "in_use"
    /\ nreq[i] < MaxRequests
    /\ hpc' = [hpc EXCEPT ![i] = "call"]
    /\ nreq' = [nreq EXCEPT ![i] = @ + 1]
    /\ UNCHANGED <<svars, fvars, spc, sess, handler, read_timeout_seconds,
                   raise_exceptions, cancel_called, exc, srv, yielded, errors>>

\* the caller's body ends normally (e = "none") or raises
CallerExit(i, e) ==
    /\ hpc[i] = "in_use"
    /\ hpc' = [hpc EXCEPT ![i] = "session_exit"]
    /\ exc' = [exc EXCEPT ![i] = e]
    /\ UNCHANGED <<svars, fvars, spc, sess, handler, read_timeout_seconds,
                   raise_exceptions, cancel_called, srv, yielded, nreq, errors>>

\* the caller's body catches the error a request through the session raised
CallerCatch(i) ==
    /\ hpc[i] = "session_exit"
    /\ yielded[i]
    /\ exc[i] \notin {"none", "caller_error", "cancelled"}
    /\ hpc' = [hpc EXCEPT ![i] = "in_use"]
    /\ exc' = [exc EXCEPT ![i] = "none"]
    /\ UNCHANGED <<svars, fvars, spc, sess, handler, read_timeout_seconds,
                   raise_exceptions, cancel_called, srv, yielded, nreq, errors>>

\* ClientSession.__aexit__: closing the session releases its two endpoints
SessionExit(i) ==
    /\ hpc[i] = "session_exit"
    /\ Commit(DoClose(DoClose(World, i, "client", ReadEnd("client")), i, "client",
                       WriteEnd("client")))
    /\ sess' = [sess EXCEPT ![i] = "exited"]
    /\ hpc' = [hpc EXCEPT ![i] = "finally"]
    /\ UNCHANGED <<fvars, spc, handler, read_timeout_seconds,
                   raise_exceptions, cancel_called, exc, srv, yielded, nreq, errors>>

\* finally: tg.cancel_scope.cancel(), followed by the start of the task group's
\* __aexit__, which cancels the scope itself when the body raised
\* (faulty variant: no finally, only the task group cancels, when the body raised)
Finally_skipped(i) ==
    /\ hpc[i] = "finally"
    /\ cancel_called' = [cancel_called EXCEPT ![i] = @ \/ exc[i] # "none"]
    /\ hpc' = [hpc EXCEPT ![i] = "tg_exit"]
    /\ UNCHANGED <<svars, fvars, spc, sess, handler, read_timeout_seconds,
                   raise_exceptions, exc, srv, yielded, nreq, errors>>

\* (faulty variant: the finally clause ends in a return, which discards the
\* exception that travels through it)
Finally_returning(i) ==
    /\ hpc[i] = "finally"
    /\ cancel_called' = [cancel_called EXCEPT ![i] = TRUE]
    /\ hpc' = [hpc EXCEPT ![i] = "tg_exit"]
    /\ exc' = [exc EXCEPT ![i] = "none"]
    /\ UNCHANGED <<svars, fvars, spc, sess, handler, read_timeout_seconds,
                   raise_exceptions, srv, yielded, nreq, errors>>

Finally(i) ==
    /\ hpc[i] = "finally"
    /\ cancel_called' = [cancel_called EXCEPT ![i] = TRUE]
    /\ hpc' = [hpc EXCEPT ![i] = "tg_exit"]
    /\ UNCHANGED <<svars, fvars, spc, sess, handler, read_timeout_seconds,
                   raise_exceptions, exc, srv, yielded, nreq, errors>>

\* the task group's __aexit__ returns once the server task has ended; the body's
\* exception and the server task's failure leave the scope, the cancellation does
\* not. Then the factory's async with starts to exit.
\* (faulty variant: the task group encloses the factory's scope instead of being
\* enclosed by it, so the factory exits before the task group waits for the task)
TaskGroupExit_inner(i) ==
    /\ hpc[i] = "tg_exit"
    /\ LET errs == (IF exc[i] \in {"none", "cancelled"} THEN {} ELSE {exc[i]})
                   \cup (IF srv[i] = "failed" THEN {"server_error"} ELSE {})
       IN  /\ errors' = [errors EXCEPT ![i] = errs]
           /\ how' = [how EXCEPT ![i] = IF errs = {} THEN "normal" ELSE "error"]
    /\ hpc' = [hpc EXCEPT ![i] = "streams_exit"]
    /\ fpc' = [fpc EXCEPT ![i] = "exiting"]
    /\ UNCHANGED <<svars, nexit, probe, spc, sess, handler, read_timeout_seconds,
                   raise_exceptions, cancel_called, exc, srv, yielded, nreq>>

TaskGroupExit(i) ==
    /\ hpc[i] = "tg_exit"
    /\ spc[i] = "done"
    /\ LET errs == (IF exc[i] \in {"none", "cancelled"} THEN {} ELSE {exc[i]})
                   \cup (IF srv[i] = "failed" THEN {"server_error"} ELSE {})
       IN  /\ errors' = [errors EXCEPT ![i] = errs]
           /\ how' = [how EXCEPT ![i] = IF errs = {} THEN "normal" ELSE "error"]
    /\ hpc' = [hpc EXCEPT ![i] = "streams_exit"]
    /\ fpc' = [fpc EXCEPT ![i] = "exiting"]
    /\ UNCHANGED <<svars, nexit, probe, spc, sess, handler, read_timeout_seconds,
                   raise_exceptions, cancel_called, exc, srv, yielded, nreq>>

-----------------------------------------------------------------------------
(* server.run(server_read, server_write, options, raise_exceptions)         *)

ServerRunning(i) == spc[i] \in {"started", "recv", "sent", "stalled"}

\* the server task ends: it releases its two endpoints
ServerEnd(w, i) ==
    LET w1 == DoClose(DoClose(DoUnwind(w, <<i, "server">>), i, "server",
                              ReadEnd("server")),
                      i, "server", WriteEnd("server"))
    IN  [w1 EXCEPT !.tpc[<<i, "server">>] = "done"]

\* the processing loop waits for the next message
ServerReceive(i) ==
    /\ spc[i] \in {"started", "sent"}
    /\ tpc[<<i, "server">>] = "idle"
    /\ ~cancel_called[i]
    /\ Commit(DoReceive(World, i, "server", ReadEnd("server")))
    /\ spc' = [spc EXCEPT ![i] = "recv"]
    /\ UNCHANGED <<fvars, hpc, sess, handler, read_timeout_seconds,
                   raise_exceptions, cancel_called, exc, srv, yielded, nreq, errors>>

\* the handler answers the request it received
ServerRespond(i) ==
    /\ spc[i] = "recv"
    /\ tpc[<<i, "server">>] = "idle"
    /\ ~cancel_called[i]
    /\ ~Stalls(i)
    /\ ~(Fails(i) /\ RaiseFlag(i))
    /\ Commit(DoSend(World, i, "server", WriteEnd("server"),
                     Item(i, WriteEnd("server"),
                          IF Fails(i) THEN "error_response" ELSE ResponseKind(handler[i]))))
    /\ spc' = [spc EXCEPT ![i] = "sent"]
    /\ UNCHANGED <<fvars, hpc, sess, handler, read_timeout_seconds,
                   raise_exceptions, cancel_called, exc, srv, yielded, nreq, errors>>

\* the handler never answers
ServerStall(i) ==
    /\ spc[i] = "recv"
    /\ tpc[<<i, "server">>] = "idle"
    /\ ~cancel_called[i]
    /\ Stalls(i)
    /\ spc' = [spc EXCEPT ![i] = "stalled"]
    /\ UNCHANGED <<svars, fvars, hpc, sess, handler, read_timeout_seconds,
                   raise_exceptions, cancel_called, exc, srv, yielded, nreq, errors>>

\* raise_exceptions: the processing error leaves server.run; the task group
\* cancels its scope because a child task failed
ServerRaise(i) ==
    /\ spc[i] = "recv"
    /\ tpc[<<i, "server">>] = "idle"
    /\ Fails(i) /\ RaiseFlag(i)
    /\ Commit(ServerEnd(World, i))
    /\ spc' = [spc EXCEPT ![i] = "done"]
    /\ srv' = [srv EXCEPT ![i] = "failed"]
    /\ cancel_called' = [cancel_called EXCEPT ![i] = TRUE]
    /\ UNCHANGED <<fvars, hpc, sess, handler, read_timeout_seconds,
                   raise_exceptions, exc, yielded, nreq, errors>>

\* a send or receive of the server raised a stream error: the end of the stream
\* ends the loop, another error ends it or leaves server.run as a failure
ServerStreamError(i, r) ==
    /\ spc[i] \in {"recv", "sent"}
    /\ tpc[<<i, "server">>] = "raise"
    /\ slot[<<i, "server">>].kind = "EndOfStream" => r = "returned"
    /\ Commit(ServerEnd(World, i))
    /\ spc' = [spc EXCEPT ![i] = "done"]
    /\ srv' = [srv EXCEPT ![i] = r]
    /\ cancel_called' = [cancel_called EXCEPT ![i] = @ \/ r = "failed"]
    /\ UNCHANGED <<fvars, hpc, sess, handler, read_timeout_seconds,
                   raise_exceptions, exc, yielded, nreq, errors>>

\* the server task observes the cancellation at its next suspension point
ServerCancelled(i) ==
    /\ cancel_called[i]
    /\ ServerRunning(i)
    /\ tpc[<<i, "server">>] \in {"idle", "recv_wait", "send_wait"}
    /\ ~(spc[i] = "recv" /\ tpc[<<i, "server">>] = "idle"
            /\ Fails(i) /\ RaiseFlag(i))
    /\ IF spc[i] = "started"
       THEN Commit([World EXCEPT !.tpc[<<i, "server">>] = "done"])
       ELSE Commit(ServerEnd(World, i))
    /\ spc' = [spc EXCEPT ![i] = "done"]
    /\ srv' = [srv EXCEPT ![i] = "cancelled"]
    /\ UNCHANGED <<fvars, hpc, sess, handler, read_timeout_seconds,
                   raise_exceptions, cancel_called, exc, yielded, nreq, errors>>

Next ==
    \/ \E i \in Insts : EnterFactory(i)
    \/ \E i \in Insts : StartSoon(i)
    \/ \E i \in Insts : SessionEnter(i)
    \/ \E i \in Insts : ClientRequestSend(i)
    \/ \E i \in Insts : ClientRequestReceive(i)
    \/ \E i \in Insts : ClientResponse(i)
    \/ \E i \in Insts : Yield(i)
    \/ \E i \in Insts : ClientTimeout(i)
    \/ \E i \in Insts : ClientStreamError(i)
    \/ \E i \in Insts : HostCancelled(i)
    \/ \E i \in Insts : CallerRequest(i)
    \/ \E i \in Insts : CallerCatch(i)
    \/ \E i \in Insts, e \in {"none", "caller_error"} : CallerExit(i, e)
    \/ \E i \in Insts : SessionExit(i)
    \/ \E i \in Insts : Finally(i)
    \/ \E i \in Insts : TaskGroupExit(i)
    \/ \E i \in Insts : FactoryExit(i)
    \/ \E i \in Insts, e \in SendEnds : ProbeSend(i, e)
    \/ \E i \in Insts, e \in RecvEnds : ProbeReceive(i, e)
    \/ \E i \in Insts : ServerReceive(i)
    \/ \E i \in Insts : ServerRespond(i)
    \/ \E i \in Insts : ServerStall(i)
    \/ \E i \in Insts : ServerRaise(i)
    \/ \E i \in Insts, r \in {"returned", "failed"} : ServerStreamError(i, r)
    \/ \E i \in Insts : ServerCancelled(i)

Spec == InitConnector({1}) /\ [][Next]_vars

\* two connectors open in one process, against two different server handlers
InitTwo ==
    /\ InitConnector({1, 2})
    /\ handler[1] = "ok" /\ handler[2] \in {"stall", "proc_error"}
    /\ read_timeout_seconds[1] = "finite"
    /\ raise_exceptions[2]

SpecTwo == InitTwo /\ [][Next]_vars

\* the event loop runs every task that can run and fires every armed timer; the
\* caller alone decides when it makes a request or leaves the scope
HostStep(i) ==
    \/ EnterFactory(i)
    \/ StartSoon(i)
    \/ SessionEnter(i)
    \/ ClientRequestSend(i)
    \/ ClientRequestReceive(i)
    \/ ClientResponse(i)
    \/ Yield(i)
    \/ ClientTimeout(i)
    \/ ClientStreamError(i)
    \/ HostCancelled(i)
    \/ SessionExit(i)
    \/ Finally(i)
    \/ TaskGroupExit(i)
    \/ FactoryExit(i)

ServerStep(i) ==
    \/ ServerReceive(i)
    \/ ServerRespond(i)
    \/ ServerStall(i)
    \/ ServerRaise(i)
    \/ \E r \in {"returned", "failed"} : ServerStreamError(i, r)
    \/ ServerCancelled(i)

FairSpec == Spec /\ WF_vars(HostStep(1)) /\ WF_vars(ServerStep(1))

-----------------------------------------------------------------------------
(* Properties *)

AllClosed(i) == \A e \in Ends : closed[<<i, e>>]

\* C1: once the connector's scope has exited, after a normal end of the caller's
\* body or after an exception, all four endpoints are closed, the task group's
\* cancel scope has been cancelled, and a send or receive attempted on an endpoint
\* ends in ClosedResourceError.
ScopeExitCleanup ==
    \A i \in Insts :
        fpc[i] = "exited" =>
            /\ AllClosed(i)
            /\ cancel_called[i]
            /\ probe[i].res \in {"none", "ClosedResourceError"}

ScopeExitCleanupWitness ==
    /\ fpc[1] = "exited"
    /\ yielded[1]
    /\ exc[1] = "caller_error"
    /\ srv[1] = "cancelled"
    /\ probe[1].res = "ClosedResourceError"

\* C2: whenever the caller holds the yielded session, the handshake is complete:
\* the server has received the initialize request, the client has received the
\* response to it, and the session is initialized.
YieldedAfterHandshake ==
    \A i \in Insts :
        (yielded[i] \/ hpc[i] \in InUsePhases) =>
            /\ sess[i] \in {"initialized", "exited"}
            /\ Len(rcvd[<<i, "c2s_recv">>]) >= 1
            /\ rcvd[<<i, "c2s_recv">>][1].kind = "request"
            /\ Len(rcvd[<<i, "s2c_recv">>]) >= 1
            /\ rcvd[<<i, "s2c_recv">>][1].kind = "response"

YieldedAfterHandshakeWitness == hpc[1] = "in_use" /\ nreq[1] = 0 /\ ~cancel_called[1]

\* C3: while the factory's scope is open, in each direction the items received
\* followed by the items buffered are exactly the items sent, in the order sent:
\* nothing is reordered, duplicated or lost, and no item is handed out twice.
SendOf(d) == IF d = "c2s" THEN "c2s_send" ELSE "s2c_send"

RecvOf(d) == IF d = "c2s" THEN "c2s_recv" ELSE "s2c_recv"

FifoDelivery ==
    \A i \in Insts : \A d \in Dirs :
        fpc[i] = "open" =>
            /\ sent[<<i, SendOf(d)>>] = rcvd[<<i, RecvOf(d)>>] \o st[<<i, d>>].buffer
            /\ \A k \in 1..Len(sent[<<i, SendOf(d)>>]) : sent[<<i, SendOf(d)>>][k].n = k
            /\ \A k \in 1..Len(rcvd[<<i, RecvOf(d)>>]) :
                   \A x \in DOMAIN rcvd : \A j \in 1..Len(rcvd[x]) :
                       rcvd[x][j] = rcvd[<<i, RecvOf(d)>>][k] => (x = <<i, RecvOf(d)>> /\ j = k)

FifoDeliveryWitness ==
    /\ fpc[1] = "open"
    /\ Len(rcvd[<<1, "c2s_recv">>]) = 2
    /\ Len(rcvd[<<1, "s2c_recv">>]) = 2

\* C4: the two pairs are mirrored: what is written on the client pair's send
\* endpoint is readable on the server pair's receive endpoint (received there or
\* buffered for it) and never received on the client pair's receive endpoint, and
\* the same with client and server exchanged.
MirroredPairs ==
    \A i \in Insts :
        LET cr == <<i, client_streams[1]>>
            cw == <<i, client_streams[2]>>
            sr == <<i, server_streams[1]>>
            sw == <<i, server_streams[2]>>
        IN  /\ \A k \in 1..Len(rcvd[sr]) : rcvd[sr][k].from = cw
            /\ \A k \in 1..Len(rcvd[cr]) : rcvd[cr][k].from = sw
            /\ fpc[i] = "open" =>
                 /\ sent[cw] = rcvd[sr] \o st[StateOf(i, server_streams[1])].buffer
                 /\ sent[sw] = rcvd[cr] \o st[StateOf(i, client_streams[1])].buffer

MirroredPairsWitness ==
    /\ Len(rcvd[<<1, "c2s_recv">>]) >= 1
    /\ Len(rcvd[<<1, "s2c_recv">>]) >= 1
    /\ rcvd[<<1, "c2s_recv">>][1].from = <<1, "c2s_send">>
    /\ rcvd[<<1, "s2c_recv">>][1].from = <<1, "s2c_send">>

\* C5: when the handshake fails (read timeout, malformed response, exception value
\* in place of the response), no session is yielded, and once the scope has exited
\* it has failed with that error, the cancel scope is cancelled and all four
\* endpoints are closed.
HandshakeFailed(i) ==
    nreq[i] = 0 /\ exc[i] \in {"timeout", "malformed", "exc_value"}

HandshakeFailureCleanup ==
    \A i \in Insts :
        HandshakeFailed(i) =>
            /\ ~yielded[i]
            /\ hpc[i] \notin InUsePhases
            /\ sess[i] # "initialized"
            /\ fpc[i] = "exited" =>
                 /\ exc[i] \in errors[i]
                 /\ cancel_called[i]
                 /\ AllClosed(i)

HandshakeFailureCleanupWitness ==
    /\ fpc[1] = "exited"
    /\ exc[1] = "exc_value"
    /\ errors[1] = {"exc_value"}

\* C6: with a handler that never answers the initialize request and a finite read
\* timeout, entering the connector eventually fails with the timeout: the scope is
\* left with that error, no session was yielded, and the endpoints are closed.
StallTimesOut ==
    \A i \in {1} :
        (handler[i] = "stall" /\ read_timeout_seconds[i] = "finite") =>
            <>(fpc[i] = "exited" /\ errors[i] = {"timeout"} /\ ~yielded[i] /\ AllClosed(i))

StallTimesOutWitness ==
    /\ handler[1] = "stall"
    /\ read_timeout_seconds[1] = "finite"
    /\ fpc[1] = "exited"
    /\ errors[1] = {"timeout"}
    /\ AllClosed(1)

\* C7: without a read timeout and with a handler that never answers, a client
\* suspended in initialize stays suspended: from that state on the connector
\* neither yields a session nor fails.
InitSuspended(i) ==
    /\ read_timeout_seconds[i] = "None"
    /\ handler[i] = "stall"
    /\ hpc[i] = "init_recv"
    /\ tpc[<<i, "client">>] = "recv_wait"
    /\ ~yielded[i]
    /\ exc[i] = "none"

InitSuspendsForever ==
    [][\A i \in Insts : InitSuspended(i) => InitSuspended(i)']_vars

InitSuspendsForeverWitness == InitSuspended(1) /\ spc[1] = "stalled"

\* C8: a queue never buffers more than one item; a writer is suspended in send
\* only while the buffer holds an item and no reader waits, a send that finds the
\* buffer full with no reader waiting does not complete, and a suspended writer's
\* send completes only in the step in which the reader receives the buffered item.
WriterOf(x) == <<x[1], IF x[2] = WriteEnd("client") THEN "client" ELSE "server">>

OneSlot ==
    /\ \A sid \in DOMAIN st : Len(st[sid].buffer) <= 1
    /\ \A sid \in DOMAIN st : \A k \in 1..Len(st[sid].waiting_senders) :
           tpc[st[sid].waiting_senders[k].task] = "send_wait"
               => Len(st[sid].buffer) = 1 /\ st[sid].waiting_receivers = <<>>

Backpressure ==
    \A i \in Insts : \A d \in Dirs :
        LET se == <<i, SendOf(d)>>
            re == <<i, RecvOf(d)>>
            s == st[StateOf(i, SendOf(d))]
        IN  /\ (tpc[WriterOf(se)] = "send_wait" /\ tpc'[WriterOf(se)] = "idle")
                   => /\ Len(rcvd'[re]) = Len(rcvd[re]) + 1
                      /\ rcvd'[re][Len(rcvd'[re])] = s.buffer[1]
            /\ (tpc[WriterOf(se)] = "idle" /\ Len(s.buffer) = 1 /\ s.waiting_receivers = <<>>)
                   => sent'[se] = sent[se]

SingleSlotBackpressure == []OneSlot /\ [][Backpressure]_vars

SingleSlotBackpressureWitness ==
    /\ tpc[<<1, "client">>] = "send_wait"
    /\ Len(st[<<1, "c2s">>].buffer) = 1
    /\ Len(st[<<1, "c2s">>].waiting_senders) = 1

\* C9: with two connectors open at the same time, every item received or buffered
\* on an endpoint of one connector was sent on an endpoint of the same connector.
Isolation ==
    /\ \A x \in DOMAIN rcvd : \A k \in 1..Len(rcvd[x]) : rcvd[x][k].from[1] = x[1]
    /\ \A i \in Insts : \A e \in RecvEnds :
           \A k \in 1..Len(st[StateOf(i, e)].buffer) :
               st[StateOf(i, e)].buffer[k].from[1] = i

IsolationWitness ==
    /\ fpc[1] = "open" /\ fpc[2] = "open"
    /\ Len(rcvd[<<1, "s2c_recv">>]) >= 1
    /\ Len(rcvd[<<2, "c2s_recv">>]) >= 1
    /\ handler[1] # handler[2]

\* C10: no endpoint is ever released twice, and once the factory's scope has
\* exited, each of the four endpoints is closed and has been released once,
\* whatever was still buffered or being sent when the body ended.
ReleasedExactlyOnce ==
    \A i \in Insts :
        /\ \A e \in Ends : released[<<i, e>>] <= 1
        /\ fpc[i] = "exited" =>
             \A e \in Ends : closed[<<i, e>>] /\ released[<<i, e>>] = 1

ReleasedExactlyOnceWitness ==
    /\ fpc[1] = "exited"
    /\ how[1] = "cancelled"
    /\ Len(st[<<1, "c2s">>].buffer) = 1
    /\ Len(sent[<<1, "s2c_send">>]) = 2

\* C11: once the connector's exit has requested the cancellation, the running
\* server task takes no further step of its loop: its next step is its end; and
\* the exit, which waits for the server task, eventually completes with the task
\* ended.
ObservesCancellation ==
    \A i \in Insts :
        (cancel_called[i] /\ ServerRunning(i)) => (spc'[i] = spc[i] \/ spc'[i] = "done")

CancelledExitCompletes ==
    /\ [][ObservesCancellation]_vars
    /\ \A i \in {1} : (hpc[i] = "tg_exit") ~> (fpc[i] = "exited" /\ spc[i] = "done")

CancelledExitCompletesWitness ==
    /\ fpc[1] = "exited"
    /\ handler[1] = "stall_later"
    /\ srv[1] = "cancelled"
    /\ errors[1] = {}

\* C12: a handler's processing error, with raise_exceptions set, ends the server
\* task as a failure, cancels the task group's scope, and the connector's scope
\* ends with the server's error; with raise_exceptions unset it does not end the
\* task: the task goes on and an error response is put on the server-to-client
\* stream (unless the client's receive endpoint is already closed).
ProcessingErrorStep(i) ==
    /\ Fails(i)
    /\ spc[i] = "recv"
    /\ tpc[<<i, "server">>] = "idle"
    /\ spc'[i] # spc[i]

ErrorResponseOut(i) ==
    LET se == <<i, "s2c_send">>
        ws == st'[<<i, "s2c">>].waiting_senders
    IN  \/ /\ Len(sent'[se]) = Len(sent[se]) + 1
           /\ sent'[se][Len(sent'[se])].kind = "error_response"
        \/ /\ Len(ws) = 1
           /\ ws[1].item.kind = "error_response"
           /\ tpc'[<<i, "server">>] = "send_wait"

ProcessingErrorPolicy ==
    \A i \in Insts :
        ProcessingErrorStep(i) =>
            IF raise_exceptions[i]
            THEN spc'[i] = "done" /\ srv'[i] = "failed" /\ cancel_called'[i]
            ELSE ~cancel_called[i] =>
                    /\ spc'[i] = "sent"
                    /\ srv'[i] = "none"
                    /\ ~closed[<<i, "s2c_recv">>] => ErrorResponseOut(i)

ServerFailureSurfaces ==
    \A i \in Insts :
        /\ (fpc[i] = "exited" /\ srv[i] = "failed") => "server_error" \in errors[i]
        /\ (handler[i] = "proc_error" /\ raise_exceptions[i]) => sent[<<i, "s2c_send">>] = <<>>
        /\ (handler[i] = "proc_error" /\ raise_exceptions[i] /\ spc[i] = "done"
                /\ Len(rcvd[<<i, "c2s_recv">>]) >= 1) => srv[i] = "failed"

RaiseExceptionsPolicy == []ServerFailureSurfaces /\ [][ProcessingErrorPolicy]_vars

RaiseExceptionsPolicyWitness ==
    /\ fpc[1] = "exited"
    /\ handler[1] = "proc_error"
    /\ raise_exceptions[1]
    /\ srv[1] = "failed"
    /\ errors[1] = {"server_error"}

\* the caller holds the yielded session: its body runs or waits in a request
Held(i) == yielded[i] /\ hpc[i] \in InUsePhases

\* C13 as stated: in every state in which the caller holds the yielded session,
\* the server task has been started and has not terminated.
ServerRunsWhileHeld ==
    \A i \in Insts : Held(i) => spc[i] \notin {"none", "done"}

\* C13, amended: in every state in which the caller holds the yielded session,
\* the server task has been started, and it has terminated only by its own
\* failure, which has cancelled the task group's scope.
ServerRunsUnlessFailed ==
    \A i \in Insts :
        Held(i) =>
            /\ spc[i] # "none"
            /\ spc[i] = "done" => (srv[i] = "failed" /\ cancel_called[i])

ServerRunsUnlessFailedWitness ==
    /\ Held(1)
    /\ hpc[1] = "call_sent"
    /\ spc[1] = "done"
    /\ srv[1] = "failed"
    /\ handler[1] = "proc_error_later"

\* the tasks that have performed one of the operations ops on endpoint e
TasksUsing(i, e, ops) == {u[1] : u \in {x \in users[<<i, e>>] : x[2] \in ops}}

Writers(i, d) ==
    UNION {TasksUsing(i, e, {"send"}) : e \in {x \in SendEnds : StateOf(i, x) = <<i, d>>}}

Readers(i, d) ==
    UNION {TasksUsing(i, e, {"receive"}) : e \in {x \in RecvEnds : StateOf(i, x) = <<i, d>>}}

\* C14: each endpoint is sent on or received from by one task only, each stream
\* has one writer task and one reader task, different from each other, and when
\* two tasks have operated on the same endpoint (the scope's exit closes the
\* endpoints the server task used) one of them has terminated: no endpoint is
\* operated on by two tasks that run at the same time.
SingleTaskPerEndpoint ==
    \A i \in Insts :
        /\ \A e \in Ends :
            /\ Cardinality(TasksUsing(i, e, {"send", "receive"})) <= 1
            /\ Cardinality(TasksUsing(i, e, {"send", "receive", "close"})) > 1 =>
                  \E t \in TasksUsing(i, e, {"send", "receive", "close"}) :
                        tpc[<<i, t>>] = "done"
        /\ \A d \in Dirs :
            /\ Cardinality(Writers(i, d)) <= 1
            /\ Cardinality(Readers(i, d)) <= 1
            /\ Writers(i, d) \cap Readers(i, d) = {}

SingleTaskPerEndpointWitness ==
    /\ fpc[1] = "exited"
    /\ Writers(1, "c2s") = {"client"} /\ Readers(1, "c2s") = {"server"}
    /\ Writers(1, "s2c") = {"server"} /\ Readers(1, "s2c") = {"client"}
    /\ users[<<1, "c2s_recv">>] = {<<"server", "receive">>, <<"server", "close">>,
                                   <<"client", "close">>}

\* the phase of one connector invocation, read off the program state:
\* 0 nothing yet, 1 channels open, 2 server task started, 3 client initialized,
\* 4 session in use by the caller, 5 teardown (the client session has been exited)
Phase(i) ==
    IF sess[i] = "exited" \/ fpc[i] \in {"exiting", "exited"} THEN 5
    ELSE IF yielded[i] THEN 4
    ELSE IF sess[i] = "initialized" THEN 3
    ELSE IF spc[i] # "none" THEN 2
    ELSE IF fpc[i] # "new" THEN 1
    ELSE 0

PhaseStep ==
    \A i \in Insts :
        \/ Phase(i)' = Phase(i)
        \/ Phase(i)' = Phase(i) + 1
        \/ Phase(i) >= 2 /\ Phase(i)' = 5

PhaseInv ==
    \A i \in Insts :
        /\ spc[i] # "none" => fpc[i] # "new"
        /\ sess[i] # "none" => spc[i] # "none"
        /\ sent[<<i, WriteEnd("client")>>] # <<>> => spc[i] # "none"
        /\ yielded[i] => sess[i] \in {"initialized", "exited"}
        /\ sess[i] = "initialized" => rcvd[<<i, ReadEnd("client")>>] # <<>>
        /\ fpc[i] \in {"exiting", "exited"} => sess[i] = "exited"

ScopeOpen(i) == fpc[i] = "open" /\ sess[i] # "exited"

\* C16 as stated: between the entry of the scope (the session has been yielded)
\* and the start of its exit, that is while the caller uses the yielded session,
\* none of the four endpoints is closed.
EndpointsLiveWithScope ==
    \A i \in Insts : (yielded[i] /\ ScopeOpen(i)) => \A e \in Ends : ~closed[<<i, e>>]

\* C16, amended: between the entry of the scope and the start of its exit the
\* factory has closed no endpoint, the client's two endpoints are open, and the
\* server's two endpoints are open unless the server task has ended by its own
\* failure, releasing them.
EndpointsLiveUnlessServerFailed ==
    \A i \in Insts :
        ScopeOpen(i) =>
            /\ nexit[i] = Len(AsyncWithItems)
            /\ \A e \in {ReadEnd("client"), WriteEnd("client")} : ~closed[<<i, e>>]
            /\ \A e \in {ReadEnd("server"), WriteEnd("server")} :
                  closed[<<i, e>>] => (spc[i] = "done" /\ srv[i] = "failed")

EndpointsLiveUnlessServerFailedWitness ==
    /\ ScopeOpen(1)
    /\ yielded[1]
    /\ hpc[1] \in InUsePhases
    /\ closed[<<1, ReadEnd("server")>>] /\ closed[<<1, WriteEnd("server")>>]
    /\ ~closed[<<1, ReadEnd("client")>>] /\ ~closed[<<1, WriteEnd("client")>>]

\* the factory's exit has closed at least one of the async with's items
FactoryHasClosed(i) == nexit[i] < Len(AsyncWithItems)

\* C17: whenever the factory's exit has started or has closed an endpoint, the
\* client session has been exited and the server task has terminated.
FactoryClosesLast ==
    \A i \in Insts :
        (fpc[i] \in {"exiting", "exited"} \/ FactoryHasClosed(i)) =>
            /\ sess[i] = "exited"
            /\ spc[i] = "done"
            /\ tpc[<<i, "server">>] = "done"

FactoryClosesLastWitness ==
    /\ fpc[1] = "exiting"
    /\ nexit[1] = Len(AsyncWithItems) - 1
    /\ closed[<<1, AsyncWithItems[Len(AsyncWithItems)]>>]
    /\ srv[1] = "cancelled"
    /\ yielded[1]

\* the handler answers the initialize request with a response
Answers(i) == handler[i] \in {"ok", "stall_later", "proc_error_later"}

Suspended(i, t) == tpc[<<i, t>>] \in {"send_wait", "recv_wait"}

\* with an answering server, the client session and the server task are never
\* both suspended in a stream operation
NoJointSuspension ==
    \A i \in Insts : Answers(i) => ~(Suspended(i, "client") /\ Suspended(i, "server"))

CallerErrorKept ==
    \A i \in Insts : exc[i] = "caller_error" => exc'[i] = "caller_error"

CallerErrorAtExit ==
    \A i \in Insts :
        (exc[i] = "caller_error" /\ fpc[i] \in {"exiting", "exited"}) =>
            /\ "caller_error" \in errors[i]
            /\ how[i] = "error"
            /\ cancel_called[i]
            /\ spc[i] = "done"
            /\ fpc[i] = "exited" => AllClosed(i)

\* C19: an exception raised by the caller's body is not swallowed: it travels
\* through the whole exit, and once the server task has been cancelled and the
\* endpoints are closed, the scope ends in failure with the caller's exception
\* among its errors, never in success.
CallerErrorPropagates == []CallerErrorAtExit /\ [][CallerErrorKept]_vars

CallerErrorPropagatesWitness ==
    /\ fpc[1] = "exited"
    /\ exc[1] = "caller_error"
    /\ errors[1] = {"caller_error"}
    /\ srv[1] = "cancelled"
    /\ AllClosed(1)

====
